---- MODULE Spec2Model ----
(***************************************************************************)
(* Model of the notebook working_with_logarithm_of_objective_function:     *)
(* the two log-density functions of a multivariate normal distribution,    *)
(* getLogFunc (log-space, precomputed INVCOV and MVN_COEF) and             *)
(* getLogFunc_bad (log of the density), and the cell that constructs the   *)
(* module-level state NDIM, MEAN, COVMAT, INVCOV, MVN_COEF.                *)
(*                                                                         *)
(* float64 values are modelled symbolically.  A finite value is            *)
(*     r * (2^52)^big + (tp/2)*ln(2*pi) + (1/2)*ln(rho)                    *)
(* with r and rho rationals, and a positive value produced by sqrt, exp or *)
(* a product of those is                                                   *)
(*     exp(r) * (2*pi)^(tp/2) * sqrt(rho).                                 *)
(* The non-finite values nan, +inf, -inf, the overflow of a product past   *)
(* the largest double and the underflow of exp below the smallest double   *)
(* are kept.  The rounding of the last bits of a mantissa is kept where it *)
(* decides what the program does: in the zero test on a pivot of           *)
(* numpy.linalg.inv.  Elsewhere a value is its exact one.                  *)
(***************************************************************************)
EXTENDS Integers, Sequences, FiniteSets, TLC

(***************************************************************************)
(* Rationals n/d, d > 0, in lowest terms.                                  *)
(***************************************************************************)
Abs(x) == IF x < 0 THEN -x ELSE x

RECURSIVE GCD(_, _)
GCD(a, b) == IF b = 0 THEN a ELSE GCD(b, a % b)

Reduce(n, d, g) == [n |-> n \div g, d |-> d \div g]
Rat(n, d) == IF d < 0 THEN Reduce(-n, -d, GCD(Abs(n), Abs(d))) ELSE Reduce(n, d, GCD(Abs(n), Abs(d)))

RInt(i) == [n |-> i, d |-> 1]
RAdd(a, b) == Rat(a.n * b.d + b.n * a.d, a.d * b.d)
RNeg(a) == [n |-> -a.n, d |-> a.d]
RMul(a, b) == Rat(a.n * b.n, a.d * b.d)
RInv(a) == IF a.n < 0 THEN [n |-> -a.d, d |-> -a.n] ELSE [n |-> a.d, d |-> a.n]
RSign(a) == IF a.n < 0 THEN -1 ELSE IF a.n = 0 THEN 0 ELSE 1

RECURSIVE RPow(_, _)
RPow(a, k) ==
    IF k = 0 THEN RInt(1)
    ELSE IF k < 0 THEN RPow(RInv(a), -k)
    ELSE RMul(a, RPow(a, k - 1))

(***************************************************************************)
(* float64 values.  k is "fin" (finite), "pos" (a positive value kept as   *)
(* exp(r) * (2*pi)^(tp/2) * sqrt(rho)), "sub" (a positive subnormal: the   *)
(* same form, its low bits lost to gradual underflow), "approx" (a finite  *)
(* value computed from a subnormal), "nan", "pinf" or "ninf".              *)
(***************************************************************************)
One == [n |-> 1, d |-> 1]
Zero == [n |-> 0, d |-> 1]

Val(kind, r, big, tp, rho) == [k |-> kind, r |-> r, big |-> big, tp |-> tp, rho |-> rho]
\* A finite value: a multiple of 2^52 absorbs the logarithm terms.
Fin(r, big, tp, rho) ==
    IF r.n # 0 /\ big > 0 THEN Val("fin", r, big, 0, One)
    ELSE Val("fin", r, 0, tp, rho)

F(i) == [k |-> "fin", r |-> [n |-> i, d |-> 1], big |-> 0, tp |-> 0, rho |-> One]
FRat(r) == [k |-> "fin", r |-> r, big |-> 0, tp |-> 0, rho |-> One]
\* 2^676 (3e203): a finite double whose square is past the largest double.
Huge == [k |-> "fin", r |-> One, big |-> 13, tp |-> 0, rho |-> One]
NaN == [k |-> "nan", r |-> Zero, big |-> 0, tp |-> 0, rho |-> One]
PInf == [k |-> "pinf", r |-> Zero, big |-> 0, tp |-> 0, rho |-> One]
NInf == [k |-> "ninf", r |-> Zero, big |-> 0, tp |-> 0, rho |-> One]

IsPlain(x) == x.k = "fin" /\ x.tp = 0 /\ x.rho = One
IsZero(x) == x.k = "fin" /\ x.tp = 0 /\ x.rho = One /\ x.r.n = 0
IsInf(x) == x.k \in {"pinf", "ninf"}
\* What numpy.isfinite answers.
IsFinite(x) == x.k \in {"fin", "pos", "sub", "approx"}
InfOf(s) == IF s < 0 THEN NInf ELSE PInf

RECURSIVE Log2Floor(_)
Log2Floor(n) == IF n < 2 THEN 0 ELSE 1 + Log2Floor(n \div 2)

RECURSIVE Pow2(_)
Pow2(k) == IF k = 0 THEN 1 ELSE 2 * Pow2(k - 1)

\* 1000 * ln(n) for an integer n >= 1, to within 10: n = 2^k (1 + x/1024).
LnMilliOf(k, x) ==
    (k * 693147) \div 1000 + (((x * (6144 + x)) \div (6144 + 4 * x)) * 1000) \div 1024
LnMilliAt(n, k) ==
    LnMilliOf(k, (IF k >= 10 THEN n \div Pow2(k - 10) ELSE n * Pow2(10 - k)) - 1024)
LnMilli(n) == LnMilliAt(n, Log2Floor(n))

\* 1000 * (r + (tp/2) ln(2 pi) + (1/2) ln(rho)), saturated at +-10^8: the
\* numeric value of a "fin" without Huge, the logarithm of a "pos".
LogMilliAt(whole, x) ==
    IF whole >= 100000 THEN 100000000
    ELSE IF whole < -100000 THEN -100000000
    ELSE whole * 1000 + ((x.r.n % x.r.d) * 1000) \div x.r.d
         + (x.tp * 918939) \div 1000 + (LnMilli(x.rho.n) - LnMilli(x.rho.d)) \div 2
LogMilli(x) == LogMilliAt(x.r.n \div x.r.d, x)

\* The sign of a value that is not nan.
SignOf(x) ==
    IF x.k \in {"pos", "sub", "pinf"} THEN 1
    ELSE IF x.k = "ninf" THEN -1
    ELSE IF (x.tp = 0 /\ x.rho = One) \/ x.big > 0 THEN RSign(x.r)
    ELSE IF LogMilli(x) < 0 THEN -1 ELSE 1

\* A positive value exp(r) (2 pi)^(tp/2) sqrt(rho) as float64 stores it: 0
\* below the smallest subnormal 2^-1075 (ln = -745.13), subnormal below
\* 2^-1022 (ln = -708.40), +inf above the largest double (ln = 709.78).
\* A value with a subnormal factor stays without its low bits.
PosAt(L, sub, r, tp, rho) ==
    IF L < -745133 THEN F(0)
    ELSE IF L > 709782 THEN PInf
    ELSE IF sub \/ L < -708396 THEN Val("sub", r, 0, tp, rho)
    ELSE Val("pos", r, 0, tp, rho)
PosOf(sub, v) == PosAt(LogMilli(v), sub, v.r, v.tp, v.rho)
Pos(r, tp, rho) == PosOf(FALSE, Val("pos", r, 0, tp, rho))

FNeg(x) ==
    CASE x.k \in {"fin", "approx"} -> Val(x.k, RNeg(x.r), x.big, -x.tp, RInv(x.rho))
      [] x.k = "nan" -> NaN
      [] x.k = "pinf" -> NInf
      [] x.k = "ninf" -> PInf

FAdd(x, y) ==
    CASE x.k = "nan" \/ y.k = "nan" -> NaN
      [] IsInf(x) /\ IsInf(y) -> IF x.k = y.k THEN x ELSE NaN
      [] IsInf(x) -> x
      [] IsInf(y) -> y
      [] x.k \in {"fin", "approx"} /\ y.k \in {"fin", "approx"} ->
            IF x.big > y.big THEN x
            ELSE IF y.big > x.big THEN y
            ELSE IF x.k = "fin" /\ y.k = "fin"
                 THEN Fin(RAdd(x.r, y.r), x.big, x.tp + y.tp, RMul(x.rho, y.rho))
                 ELSE Val("approx", RAdd(x.r, y.r), 0, x.tp + y.tp, RMul(x.rho, y.rho))

FSub(x, y) == FAdd(x, FNeg(y))

\* The product of two positive values, or of a positive value and the
\* square root c = sqrt(c^2) of a plain one.
PosMul(x, y) ==
    PosOf(x.k = "sub" \/ y.k = "sub",
          Val("pos", RAdd(x.r, y.r), 0, x.tp + y.tp, RMul(x.rho, y.rho)))
AsPos(x) == IF x.k = "fin" THEN Val("pos", Zero, 0, 0, RMul(x.r, x.r)) ELSE x

FMul(x, y) ==
    CASE x.k = "nan" \/ y.k = "nan" -> NaN
      [] IsInf(x) \/ IsInf(y) ->
            IF IsZero(x) \/ IsZero(y) THEN NaN ELSE InfOf(SignOf(x) * SignOf(y))
      [] IsZero(x) \/ IsZero(y) -> F(0)
      [] IsPlain(x) /\ IsPlain(y) ->
            IF x.big + y.big >= 20 THEN InfOf(RSign(x.r) * RSign(y.r))
            ELSE Fin(RMul(x.r, y.r), x.big + y.big, 0, One)
      [] IsPlain(x) /\ x.big = 0 /\ x.r.d = 1 /\ y.k = "fin" /\ y.big = 0 ->
            Fin(RMul(x.r, y.r), 0, x.r.n * y.tp, RPow(y.rho, x.r.n))
      [] /\ x.k \in {"pos", "sub"} \/ (IsPlain(x) /\ x.big = 0 /\ x.r.n > 0)
         /\ y.k \in {"pos", "sub"} \/ (IsPlain(y) /\ y.big = 0 /\ y.r.n > 0) ->
            PosMul(AsPos(x), AsPos(y))

\* 1 / y for a positive y.
FRecip(y) ==
    CASE y.k = "nan" -> NaN
      [] IsPlain(y) /\ y.big = 0 /\ y.r.n # 0 -> FRat(RInv(y.r))
      [] y.k = "pos" -> Pos(RNeg(y.r), -y.tp, RInv(y.rho))

FDiv(x, y) == FMul(x, FRecip(y))

np_pi == [k |-> "pos", r |-> Zero, big |-> 0, tp |-> 2, rho |-> [n |-> 1, d |-> 4]]

\* numpy.sqrt: nan (and a RuntimeWarning, no exception) below zero.
np_sqrt(x) ==
    CASE x.k \in {"nan", "ninf"} -> NaN
      [] x.k = "pinf" -> PInf
      [] IsPlain(x) /\ x.big = 0 ->
            IF x.r.n < 0 THEN NaN
            ELSE IF x.r.n = 0 THEN F(0)
            ELSE Val("pos", Zero, 0, 0, x.r)
      [] x.k = "pos" /\ x.tp % 2 = 0 /\ x.rho = One /\ x.r.n = 0 ->
            Val("pos", Zero, 0, x.tp \div 2, One)

\* numpy.log: -inf at zero and nan below zero (a RuntimeWarning, no exception).
np_log(x) ==
    CASE x.k \in {"nan", "ninf"} -> NaN
      [] x.k = "pinf" -> PInf
      [] IsPlain(x) /\ x.big = 0 ->
            IF x.r.n < 0 THEN NaN
            ELSE IF x.r.n = 0 THEN NInf
            ELSE Fin(Zero, 0, 0, RMul(x.r, x.r))
      [] x.k = "pos" -> Fin(x.r, 0, x.tp, x.rho)
      [] x.k = "sub" -> Val("approx", x.r, 0, x.tp, x.rho)

\* numpy.exp: 0 on underflow, +inf on overflow.
np_exp(x) ==
    CASE x.k = "nan" -> NaN
      [] x.k = "pinf" -> PInf
      [] x.k = "ninf" -> F(0)
      [] x.k = "fin" /\ x.big > 0 -> IF x.r.n < 0 THEN F(0) ELSE PInf
      [] x.k = "fin" /\ x.big = 0 -> Pos(x.r, x.tp, x.rho)

(***************************************************************************)
(* numpy arrays: a vector is a sequence of values, a matrix a sequence of  *)
(* rows.  A call that raises returns [err |-> the exception].              *)
(***************************************************************************)
Ok(v) == [err |-> "none", val |-> v]
Raise(e) == [err |-> e, val |-> NaN]

np_zeros(n) == [i \in 1..n |-> F(0)]
np_eye(n) == [i \in 1..n |-> [j \in 1..n |-> IF i = j THEN F(1) ELSE F(0)]]

IsSquare(M) == Len(M) >= 1 /\ \A i \in 1..Len(M) : Len(M[i]) = Len(M)

Minor(M, i, j) ==
    [a \in 1..(Len(M) - 1) |->
        [b \in 1..(Len(M) - 1) |->
            M[IF a < i THEN a ELSE a + 1][IF b < j THEN b ELSE b + 1]]]

RECURSIVE FSum(_, _)
FSum(f, n) == IF n = 0 THEN F(0) ELSE FAdd(FSum(f, n - 1), f[n])

\* The determinant of a square matrix, expanded along its first row.
RECURSIVE Det(_)
Det(M) ==
    IF Len(M) = 1 THEN M[1][1]
    ELSE FSum([j \in 1..Len(M) |->
                  FMul(IF j % 2 = 1 THEN M[1][j] ELSE FNeg(M[1][j]), Det(Minor(M, 1, j)))],
              Len(M))

Signed(s, d) == IF s % 2 = 0 THEN d ELSE FNeg(d)
Cofactor(M, i, j) == Signed(i + j, IF Len(M) = 1 THEN F(1) ELSE Det(Minor(M, i, j)))

\* numpy.linalg.det of a square matrix.
np_linalg_det(M) == Det(M)

\* The LU factorisation numpy.linalg.inv runs (LAPACK getrf): the pivot of
\* a column is its first entry of largest magnitude, the column below it
\* is multiplied by the reciprocal of the pivot, the trailing matrix is
\* updated, and a pivot that compares equal to 0 makes the matrix singular.
RAbsLess(a, b) == Abs(a.n) * b.d < Abs(b.n) * a.d
PivotRow(M) ==
    CHOOSE p \in 1..Len(M) :
        \A i \in 1..Len(M) : /\ ~RAbsLess(M[p][1].r, M[i][1].r)
                             /\ (i < p => RAbsLess(M[i][1].r, M[p][1].r))
Swapped(M, p) == [i \in 1..Len(M) |-> IF i = 1 THEN M[p] ELSE IF i = p THEN M[1] ELSE M[i]]
Trailing(S) ==
    [a \in 1..(Len(S) - 1) |->
        [b \in 1..(Len(S) - 1) |->
            IF IsZero(S[1][1]) THEN S[a + 1][b + 1]
            ELSE FSub(S[a + 1][b + 1], FMul(FDiv(S[a + 1][1], S[1][1]), S[1][b + 1]))]]

\* float64 holds a rational exactly when its denominator is a power of 2.
IsDyadic(r) == r.d = Pow2(Log2Floor(r.d))

\* The factorisation is exact in float64: the reciprocal of every pivot is.
RECURSIVE ExactLU(_)
ExactLUAt(S) == (IsZero(S[1][1]) \/ IsDyadic(RInv(S[1][1].r))) /\ ExactLU(Trailing(S))
ExactLU(M) == Len(M) = 1 \/ ExactLUAt(Swapped(M, PivotRow(M)))

\* What rounding leaves of a last pivot that is 0 in exact arithmetic, in
\* units of 2^-52: 0 after an exact factorisation; after a rounded one 0 or a
\* residue of either sign, as the BLAS of the build orders and fuses the
\* multiplications and subtractions of the update.
Residues(M) ==
    IF IsSquare(M) /\ IsZero(Det(M)) /\ ~ExactLU(M) THEN {-1, 0, 1} ELSE {0}

\* numpy.linalg.inv: LinAlgError for a matrix that is not square and for
\* one whose computed pivot is 0; otherwise the adjugate over the product
\* of the pivots, the rounded product when the exact one is 0.
InvByDet(M, d, e) ==
    IF IsZero(d) /\ e = 0 THEN Raise("LinAlgError")
    ELSE IF IsZero(d)
    THEN Ok([i \in 1..Len(M) |-> [j \in 1..Len(M) |->
                FMul(Cofactor(M, j, i), Val("fin", RInt(e), 1, 0, One))]])
    ELSE Ok([i \in 1..Len(M) |-> [j \in 1..Len(M) |-> FDiv(Cofactor(M, j, i), d)]])
np_linalg_inv(M, e) ==
    IF ~IsSquare(M) THEN Raise("LinAlgError")
    ELSE InvByDet(M, Det(M), e)

\* a - b with numpy's broadcasting: shapes (n,) and (m,) combine when
\* n = m or one of them is 1, a 0-d operand combines with any shape.
Broadcast(v, n, i) == IF Len(v) = 1 THEN v[1] ELSE v[i]
np_subtract(a, b) ==
    IF b.scalar \/ Len(b.data) = 1 \/ Len(a) = 1 \/ Len(a) = Len(b.data)
    THEN Ok([i \in 1..(IF Len(a) = 1 /\ ~b.scalar THEN Len(b.data) ELSE Len(a)) |->
                FSub(Broadcast(a, Len(a), i), Broadcast(b.data, Len(b.data), i))])
    ELSE Raise("ValueError")

\* numpy.matmul of a matrix and a vector.
np_matmul(M, v) ==
    IF \E i \in 1..Len(M) : Len(M[i]) # Len(v) THEN Raise("ValueError")
    ELSE Ok([i \in 1..Len(M) |-> FSum([j \in 1..Len(v) |-> FMul(M[i][j], v[j])], Len(v))])

\* numpy.dot of two vectors.
np_dot(a, b) ==
    IF Len(a) # Len(b) THEN Raise("ValueError")
    ELSE Ok(FSum([i \in 1..Len(a) |-> FMul(a[i], b[i])], Len(a)))

(***************************************************************************)
(* The inputs the notebook is run with.                                    *)
(***************************************************************************)
MaxDim == 4

Vec(ints) == [i \in 1..Len(ints) |-> F(ints[i])]
Mat(rows) == [i \in 1..Len(rows) |-> Vec(rows[i])]
Const(n, x) == [i \in 1..n |-> x]

Dims == 1..MaxDim

\* Covariance matrices of mean-zero vectors of length 2.
Covs2 ==
    { Mat(<< <<2, 0>>, <<0, 1>> >>),      Mat(<< <<2, 1>>, <<1, 1>> >>),
      Mat(<< <<4, 2>>, <<2, 2>> >>),      Mat(<< <<1, 2>>, <<2, 1>> >>),
      Mat(<< <<1, 0>>, <<0, -1>> >>),     Mat(<< <<0, 0>>, <<0, 0>> >>),
      Mat(<< <<1, 2>>, <<2, 4>> >>),      Mat(<< <<1, 0, 0>>, <<0, 1, 0>> >>),
      Mat(<< <<-1, 0>>, <<0, -1>> >>),    Mat(<< <<1, 3>>, <<3, 9>> >>),
      np_eye(3), np_eye(1) }

Configs ==
    { [mean |-> np_zeros(n), cov |-> np_eye(n)] : n \in Dims }
    \cup { [mean |-> np_zeros(2), cov |-> c] : c \in Covs2 }
    \cup { [mean |-> Vec(<<1, -1>>), cov |-> c] :
              c \in { np_eye(2), Mat(<< <<2, 1>>, <<1, 1>> >>) } }
    \cup { [mean |-> np_zeros(1), cov |-> c] :
              c \in { Mat(<< <<2>> >>), Mat(<< <<0>> >>), np_eye(3) } }
    \cup { [mean |-> np_zeros(4), cov |-> np_eye(3)] }

Point(v) == [scalar |-> FALSE, data |-> v]
Scalar(x) == [scalar |-> TRUE, data |-> <<x>>]

Points ==
    { Point(Const(n, x)) : n \in Dims, x \in {F(0), F(10000), Huge} }
    \cup { Point(<<>>), Point(Vec(<<38>>)), Point(Vec(<<1, 2>>)), Scalar(F(3)) }

(***************************************************************************)
(* The kernel's namespace.  bound holds the names that are bound; a name   *)
(* that is not bound keeps a placeholder value.                            *)
(***************************************************************************)
VARIABLES args, pc, bound, NDIM, MEAN, COVMAT, INVCOV, MVN_COEF, mvn,
          raised, work, out, first

vars == <<args, pc, bound, NDIM, MEAN, COVMAT, INVCOV, MVN_COEF, mvn,
          raised, work, out, first>>

NoCall == [fn |-> "none", point |-> Point(<<>>), res |-> Raise("none")]

Init ==
    /\ args \in Configs
    /\ pc = "cell_bad"
    /\ bound = {}
    /\ NDIM = 0
    /\ MEAN = <<>>
    /\ COVMAT = <<>>
    /\ INVCOV = <<>>
    /\ MVN_COEF = NaN
    /\ mvn = [mean |-> <<>>, cov |-> <<>>]
    /\ raised = "none"
    /\ work = {}
    /\ out = NoCall
    /\ first = NoCall

(***************************************************************************)
(* The first code cell: the frozen scipy distribution and getLogFunc_bad.  *)
(***************************************************************************)
Leading(M, k) == [i \in 1..k |-> [j \in 1..k |-> M[i][j]]]
IsSymmetric(M) == \A i, j \in 1..Len(M) : M[i][j] = M[j][i]
IsPositiveDefinite(M) == \A k \in 1..Len(M) : SignOf(Det(Leading(M, k))) > 0

\* scipy.stats.multivariate_normal(mean, cov): the frozen distribution, or
\* the exception scipy raises for a covariance it does not accept.
multivariate_normal(mean, cov) ==
    IF ~IsSquare(cov) \/ Len(cov) # Len(mean) THEN Raise("ValueError")
    ELSE IF IsSymmetric(cov) /\ IsPositiveDefinite(cov) THEN Ok([mean |-> mean, cov |-> cov])
    ELSE IF IsZero(Det(cov)) THEN Raise("LinAlgError")
    ELSE Raise("ValueError")

\* x^(h/2) for a positive x: (2 pi)^(-k/2) and |Sigma|^(-1/2).
PowHalves(x, h) ==
    CASE x.k = "pos" /\ x.rho = One /\ x.tp % 2 = 0 ->
            Pos(RMul(x.r, Rat(h, 2)), (x.tp \div 2) * h, One)
      [] IsPlain(x) /\ x.big = 0 /\ x.r.n > 0 -> Pos(Zero, 0, RPow(x.r, h))

\* (x - mu)^T Sigma^-1 (x - mu) with the inverse given: a failed step
\* hands its exception on.
DotAfter(v, m) == IF m.err = "none" THEN np_dot(v, m.val) ELSE m
MatmulAfter(inv, d) == IF d.err = "none" THEN DotAfter(d.val, np_matmul(inv, d.val)) ELSE d
Mahalanobis(mean, inv, point) == MatmulAfter(inv, np_subtract(mean, point))

\* The coefficient with |Sigma|^(+1/2).
mvn_coef_PlusHalf == FMul(PowHalves(FMul(F(2), np_pi), -Len(mvn.mean)),
                          PowHalves(np_linalg_det(mvn.cov), 1))

\* (2 pi)^(-k/2) |Sigma|^(-1/2)
mvn_coef == FMul(PowHalves(FMul(F(2), np_pi), -Len(mvn.mean)),
                 PowHalves(np_linalg_det(mvn.cov), -1))

\* mvn.pdf(point): the density of the notebook's equation,
\* (2 pi)^(-k/2) |Sigma|^(-1/2) exp(-(1/2) (x-mu)^T Sigma^-1 (x-mu)),
\* the inverse and the determinant computed in the call.
PdfAfter(q) ==
    IF q.err = "none" THEN Ok(FMul(mvn_coef, np_exp(FMul(FRat([n |-> -1, d |-> 2]), q.val))))
    ELSE q
PdfWith(inv, point) ==
    IF inv.err = "none" THEN PdfAfter(Mahalanobis(mvn.mean, inv.val, point)) ELSE inv
mvn_pdf(point) == PdfWith(np_linalg_inv(mvn.cov, 0), point)

\* The logarithm guarded against a zero density by an exception.
LogAfter_Guarded(p) ==
    IF p.err # "none" THEN p
    ELSE IF IsZero(p.val) THEN Raise("FloatingPointError")
    ELSE Ok(np_log(p.val))

\* def getLogFunc_bad(point): return np.log(mvn.pdf(point))
LogAfter(p) == IF p.err = "none" THEN Ok(np_log(p.val)) ELSE p
getLogFunc_bad(point) == LogAfter(mvn_pdf(point))

getLogFunc_bad_calls == {"inv", "det", "exp", "log"}

(***************************************************************************)
(* The second code cell: NDIM, MEAN, COVMAT, INVCOV, MVN_COEF, getLogFunc. *)
(***************************************************************************)
\* The coefficient with the determinant taken as that of the covariance.
MvnCoef_DetOfCov(ndim, invcov) ==
    FAdd(FMul(F(ndim), np_log(FDiv(F(1), np_sqrt(FMul(F(2), np_pi))))),
         np_log(np_sqrt(FRecip(np_linalg_det(invcov)))))

\* NDIM * np.log(1. / np.sqrt(2.*np.pi)) + np.log(np.sqrt(np.linalg.det(INVCOV)))
MvnCoef(ndim, invcov) ==
    FAdd(FMul(F(ndim), np_log(FDiv(F(1), np_sqrt(FMul(F(2), np_pi))))),
         np_log(np_sqrt(np_linalg_det(invcov))))

\* The result without the factor 0.5.
LogFuncAfter_NoHalf(q) ==
    IF q.err = "none" THEN Ok(FSub(MVN_COEF, q.val)) ELSE q

\* The result as the logarithm of exp(MVN_COEF) * exp(-0.5 * quadraticForm).
LogFuncAfter_ViaExp(q) ==
    IF q.err = "none"
    THEN Ok(np_log(FMul(np_exp(MVN_COEF), np_exp(FMul(FRat([n |-> -1, d |-> 2]), q.val)))))
    ELSE q

\* normedPoint = MEAN - point
\* return MVN_COEF - 0.5 * np.dot(normedPoint, np.matmul(INVCOV, normedPoint))
LogFuncAfter(q) ==
    IF q.err = "none" THEN Ok(FSub(MVN_COEF, FMul(FRat([n |-> 1, d |-> 2]), q.val))) ELSE q
getLogFunc(point) == LogFuncAfter(Mahalanobis(MEAN, INVCOV, point))

getLogFunc_calls == {"subtract", "matmul", "dot"}

CellLog_calls == {"zeros", "eye", "inv", "det", "sqrt", "log"}

(***************************************************************************)
(* Running the notebook: the two defining cells in order, then calls of    *)
(* the two functions in any order.                                         *)
(***************************************************************************)
\* Cell 1.  An exception leaves the names after the raising line unbound.
CellBadWith(m) ==
    /\ raised' = m.err
    /\ mvn' = IF m.err = "none" THEN m.val ELSE mvn
    /\ bound' = IF m.err = "none" THEN bound \cup {"NDIM", "mvn", "getLogFunc_bad"}
                ELSE bound \cup {"NDIM"}

CellBad ==
    /\ pc = "cell_bad"
    /\ pc' = "cell_log"
    /\ NDIM' = Len(args.mean)
    /\ CellBadWith(multivariate_normal(args.mean, args.cov))
    /\ work' = {"zeros", "eye"}
    /\ UNCHANGED <<args, MEAN, COVMAT, INVCOV, MVN_COEF, out, first>>

\* Cell 2.  np.linalg.inv is the only line that can raise; inv is what it
\* returned or raised.
CellLogWith(inv) ==
    /\ raised' = inv.err
    /\ IF inv.err = "none"
       THEN /\ INVCOV' = inv.val
            /\ MVN_COEF' = MvnCoef(Len(args.mean), inv.val)
            /\ bound' = bound \cup {"NDIM", "MEAN", "COVMAT", "INVCOV", "MVN_COEF",
                                    "getLogFunc"}
            /\ work' = CellLog_calls
       ELSE /\ UNCHANGED <<INVCOV, MVN_COEF>>
            /\ bound' = bound \cup {"NDIM", "MEAN", "COVMAT"}
            /\ work' = {"zeros", "eye", "inv"}

CellLog ==
    /\ pc = "cell_log"
    /\ pc' = "calls"
    /\ NDIM' = Len(args.mean)
    /\ MEAN' = args.mean
    /\ COVMAT' = args.cov
    /\ \E e \in Residues(args.cov) : CellLogWith(np_linalg_inv(args.cov, e))
    /\ UNCHANGED <<args, mvn, out, first>>

Record(fn, point, res) == [fn |-> fn, point |-> point, res |-> res]

\* The call with the subtraction done in place: MEAN -= point.
CallLogWith_InPlace(rec) ==
    /\ out' = rec
    /\ first' = IF first.fn = "none" THEN rec ELSE first
    /\ MEAN' = IF rec.res.err = "none" THEN np_subtract(MEAN, rec.point).val ELSE MEAN
    /\ UNCHANGED <<NDIM, COVMAT, INVCOV, MVN_COEF>>

\* getLogFunc(point) in a later cell; NameError when the name is not bound.
\* The call assigns its local normedPoint and no global name.
CallLogWith(rec) ==
    /\ out' = rec
    /\ first' = IF first.fn = "none" THEN rec ELSE first
    /\ UNCHANGED <<NDIM, MEAN, COVMAT, INVCOV, MVN_COEF>>

CallLog(point) ==
    /\ pc = "calls"
    /\ CallLogWith(Record("getLogFunc", point,
                          IF "getLogFunc" \in bound THEN getLogFunc(point)
                          ELSE Raise("NameError")))
    /\ work' = IF "getLogFunc" \in bound THEN getLogFunc_calls ELSE {}
    /\ UNCHANGED <<args, pc, bound, mvn, raised>>

\* getLogFunc_bad(point) in a later cell, on a point of the distribution's
\* dimension.
CallBad(point) ==
    /\ pc = "calls"
    /\ "getLogFunc_bad" \in bound
    /\ ~point.scalar
    /\ Len(point.data) = Len(mvn.mean)
    /\ out' = Record("getLogFunc_bad", point, getLogFunc_bad(point))
    /\ work' = getLogFunc_bad_calls
    /\ UNCHANGED <<args, pc, bound, NDIM, MEAN, COVMAT, INVCOV, MVN_COEF, mvn,
                   raised, first>>

Next ==
    \/ CellBad
    \/ CellLog
    \/ \E point \in Points : CallLog(point)
    \/ \E point \in Points : CallBad(point)

Spec == Init /\ [][Next]_vars

(***************************************************************************)
(* Properties.                                                             *)
(***************************************************************************)
LogCall == out.fn = "getLogFunc" /\ "getLogFunc" \in bound
BadCall == out.fn = "getLogFunc_bad"
\* The evaluator has one dimension N: NDIM, MEAN and INVCOV agree on it.
Consistent == NDIM = Len(MEAN) /\ Len(INVCOV) = Len(MEAN)
IsVectorOfLen(p, n) == ~p.scalar /\ Len(p.data) = n
HasHuge(p) == \E i \in 1..Len(p.data) : p.data[i].big > 0
Half == [n |-> 1, d |-> 2]

Delta(p) == [i \in 1..Len(MEAN) |-> FSub(MEAN[i], p.data[i])]
RowDot(row, d) == FSum([j \in 1..Len(d) |-> FMul(row[j], d[j])], Len(d))
QuadraticForm(d) == FSum([i \in 1..Len(d) |-> FMul(d[i], RowDot(INVCOV[i], d))], Len(d))

\* C1: a call of getLogFunc on a point of length N returns
\* MVN_COEF - 0.5 * (delta^T INVCOV delta) with delta = MEAN - point, and the
\* call runs no inversion, determinant, square root, logarithm or
\* exponential: it reads the values stored by the constructing cell.
C1_LogDensityFormula ==
    (LogCall /\ Consistent /\ IsVectorOfLen(out.point, NDIM)) =>
        /\ out.res = Ok(FSub(MVN_COEF, FMul(FRat(Half), QuadraticForm(Delta(out.point)))))
        /\ work \cap {"inv", "det", "sqrt", "log", "exp"} = {}

C1_Witness ==
    /\ LogCall /\ Consistent /\ IsVectorOfLen(out.point, NDIM)
    /\ out.res.err = "none"
    /\ out.res.val.k = "fin" /\ out.res.val.r.d = 4 /\ out.res.val.rho # One

\* The demonstration of the notebook: NDIM = 4, MEAN = zeros, COVMAT = identity,
\* point = NDIM*[10000].
Demo ==
    /\ MEAN = np_zeros(4)
    /\ COVMAT = np_eye(4)
    /\ out.point = Point(Const(4, F(10000)))

Underflows(p) ==
    IsZero(np_exp(FMul(FRat([n |-> -1, d |-> 2]), Mahalanobis(mvn.mean, INVCOV, p).val)))

C4_WrongLengthRaises ==
    (/\ LogCall /\ Consistent /\ NDIM >= 2
     /\ IsSymmetric(COVMAT) /\ IsPositiveDefinite(COVMAT)
     /\ ~IsVectorOfLen(out.point, NDIM)) =>
        out.res.err # "none"

\* C5 as stated: no evaluator exists whose covariance is not square or not
\* of the size of the mean.
C5_NoMismatchedEvaluator ==
    "getLogFunc" \in bound => (IsSquare(COVMAT) /\ Len(COVMAT) = Len(MEAN))

\* C6 as stated: for every covariance without an inverse the constructing
\* cell raises at np.linalg.inv, and INVCOV, MVN_COEF and getLogFunc are not
\* bound afterwards.
C6_SingularRaises ==
    (pc = "calls" /\ IsSquare(COVMAT) /\ IsZero(Det(COVMAT))) =>
        /\ raised = "LinAlgError"
        /\ bound \cap {"INVCOV", "MVN_COEF", "getLogFunc"} = {}

\* C7 as stated: no evaluator exists whose covariance is invertible with a
\* determinant <= 0, so MVN_COEF is never the logarithm of a non-positive
\* quantity.
C7_NoNonPositiveDeterminant ==
    ("getLogFunc" \in bound /\ ~IsZero(Det(COVMAT))) =>
        (SignOf(Det(COVMAT)) > 0 /\ MVN_COEF.k # "nan")

\* C8: a call of getLogFunc or getLogFunc_bad leaves NDIM, MEAN, COVMAT,
\* INVCOV and MVN_COEF as they are, and a call of getLogFunc on the point
\* of the first call returns what the first call returned, whatever calls
\* came between.
C8_CallsKeepState == pc = "calls" => UNCHANGED <<NDIM, MEAN, COVMAT, INVCOV, MVN_COEF, bound>>
C8_SameAsFirst == (out.fn = "getLogFunc" /\ out.point = first.point) => out.res = first.res
C8_PureEvaluation == [][C8_CallsKeepState /\ C8_SameAsFirst']_vars

C8_Witness ==
    /\ LogCall /\ out.res.err = "none" /\ out.point = first.point
    /\ work = getLogFunc_calls /\ "getLogFunc_bad" \in bound

\* C9: when the density of getLogFunc_bad is a normal double (no underflow),
\* getLogFunc_bad and getLogFunc return the same value on the point.
C9_AgreeWithoutUnderflow ==
    (BadCall /\ mvn_pdf(out.point).val.k = "pos") => getLogFunc(out.point) = out.res

C9_Witness ==
    /\ BadCall /\ mvn_pdf(out.point).val.k = "pos"
    /\ out.res.err = "none" /\ out.res.val.r.n # 0 /\ out.res.val.rho # One

\* C10: for a covariance with a positive determinant the stored MVN_COEF is
\* -(N/2) ln(2 pi) - (1/2) ln(det(COVMAT)), and for MEAN = 0 and
\* COVMAT = identity getLogFunc at the zero vector is -(N/2) ln(2 pi).
UnitNormal == MEAN = np_zeros(NDIM) /\ COVMAT = np_eye(NDIM)
C10_NormalizationConstant ==
    /\ ("MVN_COEF" \in bound /\ SignOf(Det(COVMAT)) > 0)
          => MVN_COEF = Fin(Zero, 0, -NDIM, RInv(Det(COVMAT).r))
    /\ (LogCall /\ UnitNormal /\ out.point = Point(np_zeros(NDIM)))
          => out.res = Ok(Fin(Zero, 0, -NDIM, One))

C10_Witness ==
    /\ LogCall /\ out.point = Point(np_zeros(NDIM)) /\ out.res.err = "none"
    /\ MVN_COEF.k = "fin" /\ MVN_COEF.rho = [n |-> 1, d |-> 4]

====
